---- MODULE Spec2Model ----
\* Model of function_app.py: the Telegram webhook handler, the weekly and daily
\* timer jobs and the keep-alive job, with every SDK call (MongoDB, Supabase,
\* Gemini, Telegram HTTP) as an external collaborator whose outcome is chosen
\* nondeterministically at the call.
\*
\* Python values are tagged records ([t |-> "absent"], [t |-> "null"],
\* [t |-> "int", v |-> n], [t |-> "str", v |-> chars], [t |-> "obj", ...]);
\* Python strings are sequences of one-character strings so that startswith,
\* str(), the 02d format, slicing and join are computed rather than assumed.
EXTENDS Integers, Sequences, FiniteSets, TLC

VARIABLES
    handler,         \* which function this invocation runs
    req,             \* webhook: the request body
    users,           \* timers: content of db.user_profile, in cursor order
    utc_hour,        \* daily: datetime.utcnow().hour at invocation
    approved_plans,  \* content of db.approved_plans, in natural order
    pending_plans,   \* content of db.pending_plans, in natural order
    pc,              \* position in the handler
    chat_id,         \* local chat_id (unbound until assigned)
    text,            \* webhook local text
    response_text,   \* the message about to be sent
    exc,             \* the exception caught by the handler's top-level except
    i,               \* timers: index of the user the for loop is at
    current_hour,    \* daily: local current_hour
    calls,           \* every collaborator call made so far, in order
    user_messages,   \* content of db.user_messages
    outcome,         \* "running", "returned" or "raised" (exception escaped)
    response         \* webhook: the HttpResponse returned

inputs == <<handler, req, users, utc_hour, approved_plans, pending_plans>>
vars == <<handler, req, users, utc_hour, approved_plans, pending_plans, pc,
          chat_id, text, response_text, exc, i, current_hour, calls,
          user_messages, outcome, response>>

\* ------------------------------------------------------------------ bounds
MaxPlans == 9
MaxPending == 9
MaxUsers == 3
MaxExcLen == 203

\* ------------------------------------------------------- program constants
PlanLimit == 5
WeeklyLimit == 5
DailyLimit == 3
TzOffset == 7
AlertLimit == 200
HttpOk == 200

\* ------------------------------------------------------------ Python values
Absent == [t |-> "absent"]
Null == [t |-> "null"]
Unbound == [t |-> "unbound"]
PInt(n) == [t |-> "int", v |-> n]
PStr(s) == [t |-> "str", v |-> s]

Digits == <<"0", "1", "2", "3", "4", "5", "6", "7", "8", "9">>
DigitChar(d) == Digits[d + 1]

RECURSIVE IntToStr(_)
IntToStr(n) == IF n < 10 THEN <<DigitChar(n)>>
               ELSE IntToStr(n \div 10) \o <<DigitChar(n % 10)>>

\* str(x) for the values a JSON payload can hold at message.chat.id
PyStr(x) == CASE x.t = "str" -> x.v
              [] x.t = "int" -> IntToStr(x.v)
              [] x.t = "null" -> <<"N", "o", "n", "e">>

\* Python truthiness ("not x" is ~Truthy(x))
Truthy(x) == CASE x.t = "str" -> x.v # <<>>
               [] x.t = "int" -> x.v # 0
               [] x.t = "obj" -> TRUE
               [] OTHER -> FALSE

StartsWith(s, c) == Len(s) >= 1 /\ s[1] = c

S_start == <<"/", "s", "t", "a", "r", "t">>
S_help == <<"/", "h", "e", "l", "p">>
S_plan == <<"/", "p", "l", "a", "n">>
S_planx == <<"/", "p", "l", "a", "n", "x">>
S_hi == <<"h", "i">>
S_temp == <<"t", "e", "m", "p">>
S_completed == <<"c", "o", "m", "p", "l", "e", "t", "e", "d">>
S_pending == <<"p", "e", "n", "d", "i", "n", "g">>
S_active == <<"a", "c", "t", "i", "v", "e">>
C101 == <<"1", "0", "1">>
C102 == <<"1", "0", "2">>

\* TELEGRAM_CHAT_ID from the environment
TELEGRAM_CHAT_ID == PStr(<<"9", "9", "9">>)

\* ------------------------------------------------------ send_telegram_message
SendOutcomes == {"200", "non200", "raise"}

\* target_chat_id = chat_id or TELEGRAM_CHAT_ID
TargetChat(c) == IF Truthy(c) THEN c ELSE TELEGRAM_CHAT_ID

\* variant: the helper without its try/except
SendEscapesNoCatch(out) == out = "raise"
\* whether an exception of requests.post leaves the helper: "except Exception"
\* catches it and the helper returns False
SendEscapes(out) == FALSE

SendCall(msg, c, idx, out) ==
    [op |-> "send", idx |-> idx, chat |-> TargetChat(c), data |-> msg, out |-> out]

Call(op, idx, c, data, out) ==
    [op |-> op, idx |-> idx, chat |-> c, data |-> data, out |-> out]

\* ------------------------------------------------------------ stored plans
Min(a, b) == IF a < b THEN a ELSE b
Take(s, n) == SubSeq(s, 1, Min(Len(s), n))

StatusCycle == <<PStr(S_completed), PStr(S_pending), Absent, PStr(S_active)>>

\* The k-th document inserted into db.approved_plans: chats, creation days
\* (all distinct, not in insertion order) and statuses are interleaved.
ApprovedAt(k) ==
    [chat_id |-> IF k % 3 = 0 THEN C102 ELSE C101,
     goal |-> IF k = 4 THEN Absent ELSE PStr(<<"g">> \o IntToStr(k)),
     status |-> StatusCycle[((k - 1) % 4) + 1],
     created_at |-> ((k * 7) % 11) + 1]

\* The k-th document inserted into db.pending_plans.
PendingAt(k) ==
    [chat_id |-> IF k % 4 = 0 THEN C102 ELSE C101,
     goal |-> IF k = 2 THEN Absent ELSE PStr(<<"p">> \o IntToStr(k)),
     status |-> IF k % 7 = 3 THEN PStr(S_completed) ELSE PStr(S_pending)]

\* dict.get(key, default)
GetOr(x, d) == IF x.t = "absent" THEN d ELSE x

\* cursor.sort("created_at", -1): repeatedly move a most recent document first
RECURSIVE SortDesc(_)
SortDesc(s) ==
    IF s = <<>> THEN <<>>
    ELSE LET m == CHOOSE j \in 1..Len(s) :
                      /\ \A k \in 1..Len(s) : s[k].created_at <= s[j].created_at
                      /\ \A k \in 1..(j - 1) : s[k].created_at < s[j].created_at
             rest == [k \in 1..(Len(s) - 1) |-> IF k < m THEN s[k] ELSE s[k + 1]]
         IN  <<s[m]>> \o SortDesc(rest)

\* ------------------------------------------------------------------ messages
\* A fixed text is named by its kind; a rendered text carries what was rendered.
Msg(kind) == [kind |-> kind, body |-> <<>>]

Fmt02d(n) == IF n < 10 THEN <<"0">> \o IntToStr(n) ELSE IntToStr(n)

\* created.strftime('%d/%m/%Y'); creation times are days of January 2025
DateStr(d) == Fmt02d(d) \o <<"/", "0", "1", "/", "2", "0", "2", "5">>

\* "✅" if status == "completed" else "🔄"
StatusGlyph(status) == IF status = PStr(S_completed) THEN "completed" ELSE "in_progress"

\* one "{emoji} *{i}. {goal}*\n   📅 {date} | Status: {status}\n\n" block
PlanEntry(n, plan) ==
    LET status == GetOr(plan.status, PStr(S_pending))
    IN  [n |-> n,
         goal |-> GetOr(plan.goal, PStr(<<"N", "/", "A">>)),
         glyph |-> StatusGlyph(status),
         date |-> DateStr(plan.created_at),
         status |-> status]

\* variant: the query without its chat_id filter
FindApprovedAnyChat(c) == Take(SortDesc(approved_plans), PlanLimit)
\* db.approved_plans.find({"chat_id": chat_id}).sort("created_at", -1).limit(5)
FindApproved(c) ==
    Take(SortDesc(SelectSeq(approved_plans, LAMBDA p : p.chat_id = c)), PlanLimit)

\* the /plan reply for a successful query
PlanReply(plans) ==
    IF plans # <<>>
    THEN [kind |-> "plan_list",
          body |-> [n \in 1..Len(plans) |-> PlanEntry(n, plans[n])]]
    ELSE Msg("plan_empty")

\* ------------------------------------------------------------------ retrieval
DocA == [content |-> PStr(<<"a">>)]
DocB == [content |-> PStr(<<"b", "c">>)]
DocNoContent == [content |-> Absent]

\* what search_rag_documents can meet: the embedding call raises, returns
\* nothing or a vector; then the rpc raises, returns no data or rows
RagOutcomes ==
    {[embed |-> "raise", rpc |-> "skipped", docs |-> <<>>],
     [embed |-> "none", rpc |-> "skipped", docs |-> <<>>],
     [embed |-> "ok", rpc |-> "raise", docs |-> <<>>],
     [embed |-> "ok", rpc |-> "ok", docs |-> <<>>],
     [embed |-> "ok", rpc |-> "ok", docs |-> <<DocA>>],
     [embed |-> "ok", rpc |-> "ok", docs |-> <<DocA, DocB>>],
     [embed |-> "ok", rpc |-> "ok", docs |-> <<DocNoContent>>]}

\* the list search_rag_documents returns
SearchResult(r) == IF r.embed = "ok" /\ r.rpc = "ok" THEN r.docs ELSE <<>>

RagCalls(q, c, r) ==
    <<Call("embed", 0, c, q, r.embed)>>
    \o (IF r.embed = "ok" THEN <<Call("rpc", 0, c, q, r.rpc)>> ELSE <<>>)

\* "\n\n".join([f"- {doc['content']}" for doc in rag_results])
RECURSIVE JoinDocs(_)
JoinDocs(docs) ==
    IF docs = <<>> THEN <<>>
    ELSE <<"-", " ">> \o docs[1].content.v
         \o (IF Len(docs) > 1 THEN <<"\n", "\n">> \o JoinDocs(Tail(docs)) ELSE <<>>)

\* doc['content'] raises KeyError when a row has no content
DocsRaise(docs) == \E k \in 1..Len(docs) : docs[k].content.t = "absent"

\* ----------------------------------------------------------- webhook payloads
ChatIds == {Absent, Null, PInt(101), PInt(0), PStr(<<>>)}
Chats == {Absent, Null} \cup {[t |-> "obj", id |-> x] : x \in ChatIds}
Texts == {Absent, Null, PInt(5), PStr(<<>>), PStr(S_start), PStr(S_help),
          PStr(S_plan), PStr(S_planx), PStr(S_hi)}
Messages == {Absent, PInt(7)}
            \cup {[t |-> "obj", chat |-> c, text |-> x] : c \in Chats, x \in Texts}
\* a body get_json cannot parse, the JSON value null, or a JSON object
Bodies == {[t |-> "unparseable"], Null}
          \cup {[t |-> "obj", message |-> m] : m \in Messages}

NoResponse == [status |-> 0, body |-> "none"]
NoExc == [type |-> "none", msg |-> <<>>]
Exc(type) == [type |-> type, msg |-> <<"e", "r", "r">>]

InitLocals ==
    /\ pc = "start"
    /\ chat_id = Unbound
    /\ text = Unbound
    /\ response_text = Msg("none")
    /\ exc = NoExc
    /\ i = 0
    /\ current_hour = 0
    /\ calls = <<>>
    /\ user_messages = <<>>
    /\ outcome = "running"
    /\ response = NoResponse

InitWebhook ==
    /\ handler = "webhook"
    /\ req \in Bodies
    /\ users = <<>>
    /\ utc_hour = 0
    /\ \E n \in 0..MaxPlans : approved_plans = [k \in 1..n |-> ApprovedAt(k)]
    /\ pending_plans = <<>>
    /\ InitLocals

\* ------------------------------------------------------------- TelegramWebhook
\* variant: a handler that catches the body-parsing error only
WebhookCatchesOnlyValueError(e) == e.type = "ValueError"
\* "except Exception as e" around the whole handler body
WebhookCatches(e) == TRUE

\* the status of the response the except block returns
ErrorStatus == HttpOk

\* an exception raised in the try block: caught by the top-level except, or not
WH_Raise(e) ==
    IF WebhookCatches(e)
    THEN /\ pc' = "except"
         /\ exc' = e
         /\ outcome' = outcome
    ELSE /\ pc' = "done"
         /\ exc' = e
         /\ outcome' = "raised"

WH_ReturnOK ==
    /\ pc' = "done"
    /\ outcome' = "returned"
    /\ response' = [status |-> HttpOk, body |-> "OK"]

\* variant: the handler without its save_user_message call
AfterExtractSkipLog == "dispatch"
\* where the handler goes once chat_id and a non-empty text are extracted
AfterExtract == "log"

\* req.get_json() up to the "if not text" return
WH_Receive ==
    /\ handler = "webhook" /\ pc = "start"
    /\ UNCHANGED <<inputs, response_text, i, current_hour, calls, user_messages>>
    /\ IF req.t = "unparseable"
       THEN WH_Raise(Exc("ValueError")) /\ UNCHANGED <<chat_id, text, response>>
       ELSE IF req.t # "obj"
       THEN WH_Raise(Exc("TypeError")) /\ UNCHANGED <<chat_id, text, response>>
       ELSE IF req.message.t = "absent"
       THEN WH_ReturnOK /\ UNCHANGED <<chat_id, text, exc>>
       ELSE IF req.message.t # "obj"
       THEN WH_Raise(Exc("AttributeError")) /\ UNCHANGED <<chat_id, text, response>>
       ELSE LET chat == GetOr(req.message.chat, [t |-> "obj", id |-> Absent])
            IN  IF chat.t # "obj"
                THEN WH_Raise(Exc("AttributeError"))
                     /\ UNCHANGED <<chat_id, text, response>>
                ELSE /\ chat_id' = PStr(PyStr(GetOr(chat.id, PStr(<<>>))))
                     /\ text' = GetOr(req.message.text, PStr(<<>>))
                     /\ IF ~Truthy(text')
                        THEN WH_ReturnOK /\ exc' = exc
                        ELSE /\ pc' = AfterExtract
                             /\ UNCHANGED <<exc, outcome, response>>

\* save_user_message(chat_id, text): insert_one, any exception logged only
WH_Log ==
    /\ handler = "webhook" /\ pc = "log"
    /\ \E ok \in BOOLEAN :
         /\ calls' = Append(calls, Call("log", 0, chat_id, text,
                                        IF ok THEN "ok" ELSE "raise"))
         /\ user_messages' = IF ok
                             THEN Append(user_messages,
                                         [chat_id |-> chat_id, message |-> text])
                             ELSE user_messages
    /\ pc' = "dispatch"
    /\ UNCHANGED <<inputs, chat_id, text, response_text, exc, i, current_hour,
                   outcome, response>>

\* the command dispatch: text.startswith('/') and the comparisons under it
WH_Dispatch ==
    /\ handler = "webhook" /\ pc = "dispatch"
    /\ UNCHANGED <<inputs, chat_id, text, i, current_hour, calls, user_messages,
                   response>>
    /\ IF text.t # "str"
       THEN WH_Raise(Exc("AttributeError")) /\ UNCHANGED response_text
       ELSE IF StartsWith(text.v, "/")
       THEN /\ UNCHANGED <<exc, outcome>>
            /\ IF text.v = S_start
               THEN response_text' = Msg("start") /\ pc' = "send"
               ELSE IF text.v = S_help
               THEN response_text' = Msg("help") /\ pc' = "send"
               ELSE IF text.v = S_plan
               THEN response_text' = response_text /\ pc' = "plan"
               ELSE response_text' = Msg("unknown_command") /\ pc' = "send"
       ELSE /\ pc' = "rag"
            /\ UNCHANGED <<response_text, exc, outcome>>

\* the /plan branch: the query and its rendering, inside its own try/except
WH_Plan ==
    /\ handler = "webhook" /\ pc = "plan"
    /\ \E ok \in BOOLEAN :
         /\ calls' = Append(calls, Call("plan_query", 0, chat_id, Msg("approved"),
                                        IF ok THEN "ok" ELSE "raise"))
         /\ response_text' = IF ok THEN PlanReply(FindApproved(chat_id.v))
                             ELSE Msg("plan_error")
    /\ pc' = "send"
    /\ UNCHANGED <<inputs, chat_id, text, exc, i, current_hour, user_messages,
                   outcome, response>>

\* search_rag_documents(text, threshold=0.3, count=2) and the context join
WH_Rag ==
    /\ handler = "webhook" /\ pc = "rag"
    /\ \E r \in RagOutcomes :
         /\ calls' = calls \o RagCalls(text, chat_id, r)
         /\ IF DocsRaise(SearchResult(r))
            THEN WH_Raise(Exc("KeyError")) /\ UNCHANGED response_text
            ELSE /\ response_text' = [kind |-> "context",
                                      body |-> JoinDocs(SearchResult(r))]
                 /\ pc' = "generate"
                 /\ UNCHANGED <<exc, outcome>>
    /\ UNCHANGED <<inputs, chat_id, text, i, current_hour, user_messages, response>>

\* generate_ai_response(text, context): the model's text, or the apology
WH_Generate ==
    /\ handler = "webhook" /\ pc = "generate"
    /\ \E ok \in BOOLEAN :
         /\ calls' = Append(calls, Call("generate", 0, chat_id, response_text,
                                        IF ok THEN "ok" ELSE "raise"))
         /\ response_text' = IF ok
                             THEN [kind |-> "ai", body |-> response_text.body]
                             ELSE Msg("apology")
    /\ pc' = "send"
    /\ UNCHANGED <<inputs, chat_id, text, exc, i, current_hour, user_messages,
                   outcome, response>>

\* success = send_telegram_message(response_text, chat_id); return 200 "OK"
WH_Send ==
    /\ handler = "webhook" /\ pc = "send"
    /\ \E out \in SendOutcomes :
         /\ calls' = Append(calls, SendCall(response_text, chat_id, 0, out))
         /\ IF SendEscapes(out)
            THEN WH_Raise(Exc("RequestException")) /\ UNCHANGED response
            ELSE WH_ReturnOK /\ UNCHANGED exc
    /\ UNCHANGED <<inputs, chat_id, text, response_text, i, current_hour,
                   user_messages>>

\* the except block: notify the chat if chat_id is bound, answer 200 with the error
WH_Except ==
    /\ handler = "webhook" /\ pc = "except"
    /\ IF chat_id # Unbound
       THEN \E out \in SendOutcomes :
              calls' = Append(calls, SendCall(Msg("error_notice"), chat_id, 0, out))
       ELSE calls' = calls
    /\ pc' = "done"
    /\ outcome' = "returned"
    /\ response' = [status |-> ErrorStatus, body |-> "error"]
    /\ UNCHANGED <<inputs, chat_id, text, response_text, exc, i, current_hour,
                   user_messages>>

Webhook == WH_Receive \/ WH_Log \/ WH_Dispatch \/ WH_Plan \/ WH_Rag
           \/ WH_Generate \/ WH_Send \/ WH_Except

\* --------------------------------------------------------------- user profiles
DefaultReminders ==
    [t |-> "list", v |-> {<<"0", "6", ":", "0", "0">>, <<"1", "2", ":", "0", "0">>,
                          <<"1", "8", ":", "0", "0">>, <<"2", "1", ":", "0", "0">>}]
CustomReminders ==
    [t |-> "list", v |-> {<<"6", ":", "0", "0">>, <<"1", "2", ":", "0", "0">>,
                          <<"0", "7", ":", "0", "0">>}]

Profiles ==
    {[chat_id |-> Absent, reminder_times |-> Absent],
     [chat_id |-> PStr(<<>>), reminder_times |-> Absent],
     [chat_id |-> PStr(S_temp), reminder_times |-> Absent],
     [chat_id |-> PStr(C101), reminder_times |-> Absent],
     [chat_id |-> PStr(C102), reminder_times |-> CustomReminders]}

\* the collection's content: chat_id is the unique key, so no profile repeats
UserLists ==
    UNION {{u \in [1..n -> Profiles] : \A a, b \in 1..n : a # b => u[a] # u[b]}
           : n \in 0..MaxUsers}

InitWeekly ==
    /\ handler = "weekly"
    /\ req = Null
    /\ users \in UserLists
    /\ utc_hour = 0
    /\ approved_plans = <<>>
    /\ \E n \in {0, 2, MaxPending} : pending_plans = [k \in 1..n |-> PendingAt(k)]
    /\ InitLocals

InitDaily ==
    /\ handler = "daily"
    /\ req = Null
    /\ users \in UserLists
    /\ utc_hour \in 0..23
    /\ \E n \in {0, 1, MaxPlans} : approved_plans = [k \in 1..n |-> ApprovedAt(k)]
    /\ pending_plans = <<>>
    /\ InitLocals

\* --------------------------------------------------- WeeklyPlanner, DailyReminder
\* chat_id = user.get('chat_id')
UserChat(u) == GetOr(u.chat_id, Null)

\* variant: the skip rule without the sentinel test
SkipsUserOnlyMissing(u) == ~Truthy(UserChat(u))
\* if not chat_id or chat_id == 'temp': continue
SkipsUser(u) == ~Truthy(UserChat(u)) \/ UserChat(u) = PStr(S_temp)

\* "except Exception as e" around the whole job: logged, the job returns
TM_Abort(e) ==
    /\ pc' = "done"
    /\ exc' = e
    /\ outcome' = "returned"

\* users = list(db.user_profile.find({})); if not users: return
TM_Fetch ==
    /\ \E ok \in BOOLEAN :
         /\ calls' = Append(calls, Call("users_query", 0, Null, Msg("user_profile"),
                                        IF ok THEN "ok" ELSE "raise"))
         /\ IF ~ok
            THEN TM_Abort(Exc("PyMongoError")) /\ i' = i
            ELSE IF users = <<>>
            THEN pc' = "done" /\ outcome' = "returned" /\ exc' = exc /\ i' = i
            ELSE pc' = "loop" /\ i' = 1 /\ UNCHANGED <<exc, outcome>>
    /\ UNCHANGED <<inputs, chat_id, text, response_text, user_messages, response>>

WK_Start ==
    /\ handler = "weekly" /\ pc = "start"
    /\ TM_Fetch
    /\ UNCHANGED current_hour

\* variant: the wrap tested with > instead of >=
LocalHourStrictWrap(u) == IF u + TzOffset > 24 THEN u + TzOffset - 24 ELSE u + TzOffset
\* current_hour = datetime.utcnow().hour + 7; if current_hour >= 24: -= 24
LocalHour(u) == IF u + TzOffset >= 24 THEN u + TzOffset - 24 ELSE u + TzOffset

\* current_time = f"{current_hour:02d}:00"
CurrentTime(h) == Fmt02d(h) \o <<":", "0", "0">>

\* current_time in user.get('reminder_times', [the four default slots])
IsDue(u, h) == CurrentTime(h) \in GetOr(u.reminder_times, DefaultReminders).v

DL_Start ==
    /\ handler = "daily" /\ pc = "start"
    /\ current_hour' = LocalHour(utc_hour)
    /\ TM_Fetch

\* the loop reaches a profile without a usable chat_id: continue
TM_Skip ==
    /\ handler \in {"weekly", "daily"} /\ pc = "loop"
    /\ i <= Len(users)
    /\ SkipsUser(users[i])
    /\ chat_id' = UserChat(users[i])
    /\ i' = i + 1
    /\ UNCHANGED <<inputs, pc, text, response_text, exc, current_hour, calls,
                   user_messages, outcome, response>>

\* db.pending_plans.find({"chat_id": chat_id, "status": "pending"}).limit(5)
FindPending(c) ==
    Take(SelectSeq(pending_plans,
                   LAMBDA p : p.chat_id = c /\ p.status = PStr(S_pending)),
         WeeklyLimit)

GoalEntry(n, plan) == [n |-> n, goal |-> GetOr(plan.goal, PStr(<<"N", "/", "A">>))]
GoalList(plans) == [n \in 1..Len(plans) |-> GoalEntry(n, plans[n])]

\* the weekly message for the plans found
WeeklyMessage(plans) ==
    IF plans = <<>> THEN Msg("weekly_no_plan")
    ELSE [kind |-> "weekly_list", body |-> GoalList(plans)]

\* an eligible user in WeeklyPlanner: the pending-plan query and the message
WK_Query ==
    /\ handler = "weekly" /\ pc = "loop"
    /\ i <= Len(users)
    /\ ~SkipsUser(users[i])
    /\ chat_id' = UserChat(users[i])
    /\ \E ok \in BOOLEAN :
         /\ calls' = Append(calls, Call("pending_query", i, chat_id', Msg("pending"),
                                        IF ok THEN "ok" ELSE "raise"))
         /\ IF ok
            THEN /\ response_text' = WeeklyMessage(FindPending(chat_id'.v))
                 /\ pc' = "send"
                 /\ UNCHANGED <<exc, outcome>>
            ELSE TM_Abort(Exc("PyMongoError")) /\ UNCHANGED response_text
    /\ UNCHANGED <<inputs, text, i, current_hour, user_messages, response>>

\* an eligible user whose reminder set lacks the current time: continue
DL_NotDue ==
    /\ handler = "daily" /\ pc = "loop"
    /\ i <= Len(users)
    /\ ~SkipsUser(users[i])
    /\ ~IsDue(users[i], current_hour)
    /\ chat_id' = UserChat(users[i])
    /\ i' = i + 1
    /\ UNCHANGED <<inputs, pc, text, response_text, exc, current_hour, calls,
                   user_messages, outcome, response>>

\* db.approved_plans.find({"chat_id": chat_id, "status": {"$ne": "completed"}}).limit(3)
FindActive(c) ==
    Take(SelectSeq(approved_plans,
                   LAMBDA p : p.chat_id = c /\ p.status # PStr(S_completed)),
         DailyLimit)

\* time_messages.get(current_hour, "⏰ *Nhắc Nhở*")
Greeting(h) == CASE h = 6 -> "daily_morning"
                 [] h = 12 -> "daily_noon"
                 [] h = 18 -> "daily_evening"
                 [] h = 21 -> "daily_night"
                 [] OTHER -> "daily_generic"

\* variant: the prompt sent at every slot
SendsWhenNoPlansAnyHour(h) == TRUE
\* if not plans: if current_hour == 6: (the morning prompt is sent)
SendsWhenNoPlans(h) == h = 6

\* a due user in DailyReminder: the active-plan query and the message, if any
DL_Query ==
    /\ handler = "daily" /\ pc = "loop"
    /\ i <= Len(users)
    /\ ~SkipsUser(users[i])
    /\ IsDue(users[i], current_hour)
    /\ chat_id' = UserChat(users[i])
    /\ \E ok \in BOOLEAN :
         /\ calls' = Append(calls, Call("active_query", i, chat_id',
                                        IF ok
                                        THEN [kind |-> "found",
                                              body |-> FindActive(chat_id'.v)]
                                        ELSE Msg("active"),
                                        IF ok THEN "ok" ELSE "raise"))
         /\ IF ~ok
            THEN TM_Abort(Exc("PyMongoError")) /\ UNCHANGED <<response_text, i>>
            ELSE /\ UNCHANGED <<exc, outcome>>
                 /\ IF FindActive(chat_id'.v) = <<>>
                    THEN IF SendsWhenNoPlans(current_hour)
                         THEN /\ response_text' = Msg("start_day")
                              /\ pc' = "send" /\ i' = i
                         ELSE /\ response_text' = response_text
                              /\ pc' = pc /\ i' = i + 1
                    ELSE /\ response_text' =
                              [kind |-> Greeting(current_hour),
                               body |-> GoalList(FindActive(chat_id'.v))]
                         /\ pc' = "send" /\ i' = i
    /\ UNCHANGED <<inputs, text, current_hour, user_messages, response>>

\* send_telegram_message(message, chat_id), then the next user
TM_Send ==
    /\ handler \in {"weekly", "daily"} /\ pc = "send"
    /\ \E out \in SendOutcomes :
         /\ calls' = Append(calls, SendCall(response_text, chat_id, i, out))
         /\ IF SendEscapes(out)
            THEN TM_Abort(Exc("RequestException")) /\ i' = i
            ELSE pc' = "loop" /\ i' = i + 1 /\ UNCHANGED <<exc, outcome>>
    /\ UNCHANGED <<inputs, chat_id, text, response_text, current_hour,
                   user_messages, response>>

\* the for loop is exhausted: the completion log line, return
TM_Finish ==
    /\ handler \in {"weekly", "daily"} /\ pc = "loop"
    /\ i > Len(users)
    /\ pc' = "done"
    /\ outcome' = "returned"
    /\ UNCHANGED <<inputs, chat_id, text, response_text, exc, i, current_hour,
                   calls, user_messages, response>>

Timers == WK_Start \/ DL_Start \/ TM_Skip \/ WK_Query \/ DL_NotDue \/ DL_Query
          \/ TM_Send \/ TM_Finish

\* -------------------------------------------------------------------- KeepAlive
\* the text of an exception, n characters long
ExcText(n) == [k \in 1..n |-> DigitChar(k % 10)]
ExcLens == {0, 5, AlertLimit, AlertLimit + 1, MaxExcLen}
ProbeOutcomes == {[ok |-> TRUE, len |-> 0]} \cup {[ok |-> FALSE, len |-> n] : n \in ExcLens}

InitKeepAlive ==
    /\ handler = "keepalive"
    /\ req = Null
    /\ users = <<>>
    /\ utc_hour = 0
    /\ approved_plans = <<>>
    /\ pending_plans = <<>>
    /\ InitLocals

\* a probe's call record
Probe(op, o) == Call(op, 0, Null, Msg("probe"), IF o.ok THEN "ok" ELSE "raise")

\* "except Exception as e" around the three probes and the summary send
KA_Raise(type, n) ==
    /\ pc' = "except"
    /\ exc' = [type |-> type, msg |-> ExcText(n)]

\* the order of the probes: what runs after each one succeeds
AfterMongo == "supabase"
AfterSupabase == "gemini"
AfterGemini == "summary"

\* db.command('ping')
KA_Mongo ==
    /\ handler = "keepalive" /\ pc = "start"
    /\ \E o \in ProbeOutcomes :
         /\ calls' = Append(calls, Probe("mongo_ping", o))
         /\ IF o.ok THEN pc' = AfterMongo /\ exc' = exc
            ELSE KA_Raise("PyMongoError", o.len)
    /\ UNCHANGED <<inputs, chat_id, text, response_text, i, current_hour,
                   user_messages, outcome, response>>

\* supabase.table('documents').select('id').limit(1).execute()
KA_Supabase ==
    /\ handler = "keepalive" /\ pc = "supabase"
    /\ \E o \in ProbeOutcomes :
         /\ calls' = Append(calls, Probe("supabase_read", o))
         /\ IF o.ok THEN pc' = AfterSupabase /\ exc' = exc
            ELSE KA_Raise("APIError", o.len)
    /\ UNCHANGED <<inputs, chat_id, text, response_text, i, current_hour,
                   user_messages, outcome, response>>

\* gemini_client.models.generate_content(...), then test_response.text[:20]
KA_Gemini ==
    /\ handler = "keepalive" /\ pc = "gemini"
    /\ \E o \in ProbeOutcomes :
         /\ calls' = Append(calls, Probe("gemini_generate", o))
         /\ IF o.ok THEN pc' = AfterGemini /\ exc' = exc
            ELSE KA_Raise("ClientError", o.len)
    /\ UNCHANGED <<inputs, chat_id, text, response_text, i, current_hour,
                   user_messages, outcome, response>>

\* send_telegram_message(message) with the "all systems operational" summary
KA_Summary ==
    /\ handler = "keepalive" /\ pc = "summary"
    /\ response_text' = Msg("all_ok")
    /\ \E out \in SendOutcomes :
         /\ calls' = Append(calls, SendCall(response_text', Null, 0, out))
         /\ IF SendEscapes(out)
            THEN KA_Raise("RequestException", 5) /\ outcome' = outcome
            ELSE pc' = "done" /\ outcome' = "returned" /\ exc' = exc
    /\ UNCHANGED <<inputs, chat_id, text, i, current_hour, user_messages, response>>

\* variant: the alert with the whole exception text
AlertTextUntruncated(msg) == msg
\* {str(e)[:200]} inside the alert text
AlertText(msg) == Take(msg, AlertLimit)

\* the bare "except: pass" around the alert send
AlertSendSwallowed == TRUE

\* the except block: the alert with the truncated exception text, best effort
KA_Except ==
    /\ handler = "keepalive" /\ pc = "except"
    /\ response_text' = [kind |-> "keepalive_error", body |-> AlertText(exc.msg)]
    /\ \E out \in SendOutcomes :
         /\ calls' = Append(calls, SendCall(response_text', Null, 0, out))
         /\ outcome' = IF SendEscapes(out) /\ ~AlertSendSwallowed
                       THEN "raised" ELSE "returned"
    /\ pc' = "done"
    /\ UNCHANGED <<inputs, chat_id, text, exc, i, current_hour, user_messages,
                   response>>

KeepAlive == KA_Mongo \/ KA_Supabase \/ KA_Gemini \/ KA_Summary \/ KA_Except

Init == InitWebhook \/ InitWeekly \/ InitDaily \/ InitKeepAlive
Next == Webhook \/ Timers \/ KeepAlive
Spec == Init /\ [][Next]_vars

\* ===================================================================== claims
Done == pc = "done"
CallIdx == 1..Len(calls)
Sends == SelectSeq(calls, LAMBDA c : c.op = "send")
SendCount == Len(Sends)
HasMessage == req.t = "obj" /\ req.message.t = "obj"
\* the payload carries a non-empty message.text
CarriesText == HasMessage /\ Truthy(req.message.text)
\* message.chat is absent or a JSON object, so that chat.id can be read
ChatReadable == HasMessage /\ req.message.chat.t \in {"absent", "obj"}
\* message.chat.id is missing from the payload
LacksChatId == HasMessage /\ (req.message.chat.t # "obj" \/ req.message.chat.id.t = "absent")
LacksText == HasMessage /\ req.message.text.t = "absent"

\* C1: every TelegramWebhook invocation ends by returning a response with
\* status 200, whatever the payload and whichever collaborator fails; no
\* exception escapes the handler and the handler never stops before returning.
C1_AlwaysReturns200 ==
    handler = "webhook" =>
        /\ outcome # "raised"
        /\ Done => (outcome = "returned" /\ response.status = 200)
        /\ ~Done => ENABLED Next

\* a run where retrieval returned a row without content (KeyError in the try
\* block), the error notification itself raised, and 200 was still returned
C1_Witness ==
    /\ handler = "webhook" /\ Done
    /\ exc.type = "KeyError"
    /\ \E k \in CallIdx : calls[k].op = "send" /\ calls[k].out = "raise"
    /\ response.status = 200

\* C2: a payload whose message lacks chat.id, or lacks text, is a silent
\* no-op: no log write, no plan query, no retrieval, no generation, no send
\* (none to the default chat either), and the acknowledgment is 200.
C2_MissingChatIdOrTextIsNoOp ==
    (handler = "webhook" /\ (LacksChatId \/ LacksText)) =>
        /\ calls = <<>>
        /\ Done => response.status = 200

\* C3 as stated: a finished invocation made exactly 0 send attempts when the
\* payload lacks message.text and exactly 1 when it carries non-empty text.
C3_OneSendIffText ==
    (handler = "webhook" /\ Done) =>
        SendCount = (IF CarriesText THEN 1 ELSE 0)

\* C3 amended: never 2 or more send attempts; a finished invocation made
\* exactly 1 when the payload carries non-empty text and message.chat is absent
\* or an object, and exactly 0 otherwise (no text, or a message.chat that is
\* not an object, where reading chat.id raises before chat_id is bound).
C3_SendCount ==
    handler = "webhook" =>
        /\ SendCount <= 1
        /\ Done => SendCount = (IF CarriesText /\ ChatReadable THEN 1 ELSE 0)

\* the main send raised inside the helper and no error notification followed
C3_Witness ==
    /\ handler = "webhook" /\ Done /\ CarriesText
    /\ text = PStr(S_hi)
    /\ SendCount = 1
    /\ Sends[1].out = "raise"
    /\ Sends[1].data.kind = "ai"

\* C4: in WeeklyPlanner a failure while processing one user (its pending-plan
\* query raising, or its send failing) does not abort the batch: every later
\* eligible user has been sent its weekly message when the run ends.
C4_FailureDoesNotAbortBatch ==
    (handler = "weekly" /\ Done) =>
        \A k \in CallIdx :
            (\/ calls[k].op = "pending_query" /\ calls[k].out = "raise"
             \/ calls[k].op = "send" /\ calls[k].out # "200")
            => \A j \in (calls[k].idx + 1)..Len(users) :
                   ~SkipsUser(users[j])
                   => \E m \in CallIdx : calls[m].op = "send" /\ calls[m].idx = j

\* the stored ApprovedPlans of the requesting chat identifier
Mine == {k \in 1..Len(approved_plans) : approved_plans[k].chat_id = chat_id.v}
\* how many of them are more recent than the k-th stored plan
Newer(k) == Cardinality({j \in Mine : approved_plans[j].created_at
                                       > approved_plans[k].created_at})
\* entry e of the reply shows stored plan k
Shows(e, k) ==
    /\ e.date = DateStr(approved_plans[k].created_at)
    /\ e.goal = GetOr(approved_plans[k].goal, PStr(<<"N", "/", "A">>))
    /\ (e.glyph = "completed") <=> (approved_plans[k].status = PStr(S_completed))
    /\ e.glyph \in {"completed", "in_progress"}
\* the reply /plan gives for the stored plans: the empty-state text for none,
\* else min(N,5) entries numbered from 1, the n-th showing the n-th most
\* recent plan of this chat identifier
PlanReplyMatchesStore ==
    IF Mine = {}
    THEN response_text.kind = "plan_empty"
    ELSE /\ response_text.kind = "plan_list"
         /\ Len(response_text.body) = Min(Cardinality(Mine), 5)
         /\ \A n \in 1..Len(response_text.body) :
                /\ response_text.body[n].n = n
                /\ \E k \in Mine : Newer(k) = n - 1 /\ Shows(response_text.body[n], k)
PlanReplied == handler = "webhook" /\ text = PStr(S_plan) /\ pc \in {"send", "done"}
PlanQueryOut == calls[Len(SelectSeq(calls, LAMBDA c : c.op = "log")) + 1].out

\* C5 as stated: the /plan reply is determined by the requesting chat
\* identifier's stored ApprovedPlans alone (empty-state text, or the listing).
C5_PlanReplyFromStoreOnly == PlanReplied => PlanReplyMatchesStore

\* C5 amended: when the plan query succeeds the /plan reply is determined by
\* the requesting chat identifier's stored ApprovedPlans as stated; when the
\* query raises the reply is the fixed error text whatever is stored.
C5_PlanReply ==
    PlanReplied =>
        IF PlanQueryOut = "ok" THEN PlanReplyMatchesStore
        ELSE response_text.kind = "plan_error"

\* six plans stored for the chat, others stored for another chat, five listed
C5_Witness ==
    /\ PlanReplied /\ Done
    /\ PlanQueryOut = "ok"
    /\ Cardinality(Mine) > 5
    /\ \E k \in 1..Len(approved_plans) : approved_plans[k].chat_id # chat_id.v
    /\ Len(response_text.body) = 5
    /\ \E n \in 1..5 : response_text.body[n].glyph = "completed"

\* the active-plan query for user j was made and returned no plan
EmptyQuery(j) ==
    \E k \in CallIdx : /\ calls[k].op = "active_query" /\ calls[k].idx = j
                       /\ calls[k].out = "ok" /\ calls[k].data.body = <<>>
SendsTo(j) == SelectSeq(calls, LAMBDA c : c.op = "send" /\ c.idx = j)

\* C6: in DailyReminder a user whose query for non-completed ApprovedPlans
\* returned nothing is eligible and due, and once the loop is past that user
\* (which it is when the run ends) the user was sent exactly one "start your
\* day" message if the computed hour is 6 and nothing if it is 12, 18 or 21.
C6_EmptyPlansOnlyAtSix ==
    handler = "daily" =>
        \A j \in 1..Len(users) :
            EmptyQuery(j) =>
                /\ ~SkipsUser(users[j]) /\ IsDue(users[j], current_hour)
                /\ Done => i > j
                /\ Len(SendsTo(j)) <= 1
                /\ (i > j /\ current_hour = 6) =>
                       (Len(SendsTo(j)) = 1 /\ SendsTo(j)[1].data.kind = "start_day"
                        /\ SendsTo(j)[1].chat = users[j].chat_id)
                /\ current_hour \in {12, 18, 21} => Len(SendsTo(j)) = 0

\* at hour 6 a user without active plans got the morning prompt
C6_Witness ==
    /\ handler = "daily" /\ Done /\ current_hour = 6
    /\ \E j \in 1..Len(users) :
           EmptyQuery(j) /\ Len(SendsTo(j)) = 1 /\ SendsTo(j)[1].data.kind = "start_day"

Eligible(j) == users[j].chat_id.t = "str" /\ users[j].chat_id.v \notin {<<>>, S_temp}
UsersFetched == calls # <<>> /\ calls[1].op = "users_query" /\ calls[1].out = "ok"

\* C7: WeeklyPlanner and DailyReminder make no plan query and no send for a
\* profile whose chat identifier is missing, empty or "temp" (no send goes to
\* "temp", none falls back to the default chat), and skipped profiles do not
\* stop the run: when it ends without an exception every profile with a usable
\* chat identifier was queried (weekly) or queried if due (daily).
C7_SentinelNeverServed ==
    handler \in {"weekly", "daily"} =>
        /\ \A k \in CallIdx :
               calls[k].op \in {"pending_query", "active_query", "send"} =>
                   /\ calls[k].idx \in 1..Len(users)
                   /\ Eligible(calls[k].idx)
                   /\ calls[k].chat = users[calls[k].idx].chat_id
                   /\ calls[k].chat \notin {PStr(S_temp), TELEGRAM_CHAT_ID}
        /\ (Done /\ UsersFetched /\ exc.type = "none") =>
               \A j \in 1..Len(users) :
                   (Eligible(j) /\ (handler = "daily" => IsDue(users[j], current_hour)))
                   => \E k \in CallIdx :
                          /\ calls[k].op \in {"pending_query", "active_query"}
                          /\ calls[k].idx = j

\* a weekly run that skipped "temp" and a profile without chat identifier and
\* then served the user after them
C7_Witness ==
    /\ handler = "weekly" /\ Done /\ Len(users) = 3
    /\ users[1].chat_id = PStr(S_temp)
    /\ users[2].chat_id = Absent
    /\ SendCount = 1 /\ Sends[1].idx = 3

ProbeOrder == <<"mongo_ping", "supabase_read", "gemini_generate">>
Probes == SelectSeq(calls, LAMBDA c : c.op \in {"mongo_ping", "supabase_read",
                                                "gemini_generate"})
VectorProbeRaised ==
    \E k \in CallIdx : calls[k].op = "supabase_read" /\ calls[k].out = "raise"

\* C8: a KeepAlive run probes in the order database ping, vector-search read,
\* generative-AI call, each at most once and nothing sent before the probes
\* end; if the vector-search probe raises, the generative-AI probe is never
\* invoked, no "all systems operational" summary is sent, and the finished run
\* attempted exactly one error alert carrying the first min(200, length)
\* characters of the exception text; the run always ends, without raising,
\* also when the alert send fails.
C8_KeepAliveOrderAndAlert ==
    handler = "keepalive" =>
        /\ Len(Probes) <= 3
        /\ \A k \in 1..Len(Probes) : Probes[k].op = ProbeOrder[k]
        /\ \A k \in CallIdx : calls[k].op = "send" => k = Len(Probes) + 1
        /\ outcome # "raised"
        /\ ~Done => ENABLED Next
        /\ Done => outcome = "returned"
        /\ VectorProbeRaised =>
               /\ \A k \in CallIdx : calls[k].op # "gemini_generate"
               /\ \A k \in CallIdx : calls[k].data.kind # "all_ok"
               /\ Done =>
                      /\ SendCount = 1
                      /\ Sends[1].data.kind = "keepalive_error"
                      /\ Len(Sends[1].data.body) <= 200
                      /\ Len(Sends[1].data.body) = Min(Len(exc.msg), 200)
                      /\ \A n \in 1..Len(Sends[1].data.body) :
                             Sends[1].data.body[n] = exc.msg[n]

\* the vector-search probe raised with a text longer than 200 characters and
\* the alert send raised too
C8_Witness ==
    /\ handler = "keepalive" /\ Done
    /\ VectorProbeRaised
    /\ Len(exc.msg) > 200
    /\ SendCount = 1 /\ Sends[1].out = "raise"
    /\ outcome = "returned"

\* C9 as stated: for every inbound message that carries text, the UserMessage
\* log write is attempted, as the first collaborator call (before any plan
\* query, retrieval, generation or send), and whether it succeeds or raises
\* the finished invocation has sent its reply and returned 200.
C9_LogAttemptedForEveryText ==
    handler = "webhook" =>
        /\ calls # <<>> =>
               /\ calls[1].op = "log"
               /\ calls[1].chat = chat_id /\ calls[1].data = text
               /\ \A k \in 2..Len(calls) : calls[k].op # "log"
        /\ (Done /\ CarriesText /\ req.message.text.t = "str") =>
               /\ calls # <<>>
               /\ SendCount = 1 /\ outcome = "returned" /\ response.status = 200

\* C9 amended: for every inbound message that carries text and whose
\* message.chat is absent or an object, the UserMessage log write, with the
\* chat identifier and the text received, is attempted once and is the first
\* collaborator call: no plan query, retrieval, generation or send precedes
\* it, in any branch; whether the write succeeds or raises, the finished
\* invocation has made its one send and returned 200. A message whose
\* message.chat is present but not an object gets no log attempt and no
\* reply (reading chat.id raises first), only the 200.
C9_LogFirstNeverBlocks ==
    handler = "webhook" =>
        /\ calls # <<>> =>
               /\ calls[1].op = "log"
               /\ calls[1].chat = chat_id /\ calls[1].data = text
               /\ \A k \in 2..Len(calls) : calls[k].op # "log"
        /\ (Done /\ CarriesText /\ ChatReadable) => calls # <<>>
        /\ (Done /\ CarriesText /\ ~ChatReadable) =>
               (calls = <<>> /\ outcome = "returned" /\ response.status = 200)
        /\ (Done /\ calls # <<>>) =>
               (SendCount = 1 /\ outcome = "returned" /\ response.status = 200)
        /\ (calls # <<>> /\ calls[1].out = "ok") =>
               user_messages = <<[chat_id |-> chat_id, message |-> text]>>

\* the log write raised, and the /plan reply was still computed and delivered
C9_Witness ==
    /\ handler = "webhook" /\ Done
    /\ text = PStr(S_plan)
    /\ calls[1].op = "log" /\ calls[1].out = "raise"
    /\ Len(calls) = 3
    /\ calls[2].op = "plan_query" /\ calls[2].out = "ok"
    /\ calls[3].op = "send" /\ calls[3].out = "200"
    /\ response.status = 200

\* HH:00 for hour h, two digits, zero padded
HourSlot(h) == <<DigitChar(h \div 10), DigitChar(h % 10), ":", "0", "0">>
\* the user's reminder set, the four default slots when the profile has none
ReminderSet(u) ==
    IF u.reminder_times.t = "absent"
    THEN {HourSlot(6), HourSlot(12), HourSlot(18), HourSlot(21)}
    ELSE u.reminder_times.v

\* C10: in DailyReminder the computed local hour is (u + 7) mod 24 for the UTC
\* hour u of the invocation and lies in 0..23; a plan query or a send is made
\* for a user only if HH:00 of that hour, two-digit and zero-padded, is in
\* the user's reminder set (the four default slots when the profile has none).
C10_LocalHourAndDueSlot ==
    (handler = "daily" /\ pc # "start") =>
        /\ current_hour = (utc_hour + 7) % 24
        /\ current_hour \in 0..23
        /\ \A k \in CallIdx :
               calls[k].op \in {"active_query", "send"} =>
                   HourSlot(current_hour) \in ReminderSet(users[calls[k].idx])

\* UTC 23 wraps to local 6: the user with the default slots is served, the
\* user whose set holds "6:00" but not "06:00" is not
C10_Witness ==
    /\ handler = "daily" /\ Done
    /\ utc_hour = 23 /\ current_hour = 6
    /\ Len(users) = 2
    /\ users[1].chat_id = PStr(C102) /\ users[2].chat_id = PStr(C101)
    /\ SendCount = 1 /\ Sends[1].idx = 2

====
